---- MODULE Spec2Model ----
(***************************************************************************)
(* Model of scripts/copy_repo_content.py: RepoContentCopier.copy_all and   *)
(* the steps it sequences (validate_token, check_dest_repo_empty,          *)
(* copy_source_code, copy_issues / get_issues / create_issue /             *)
(* close_issue).  Every HTTP request and every external git command is one *)
(* step; the hosting service and git answer nondeterministically.          *)
(***************************************************************************)
EXTENDS Integers, Sequences, FiniteSets, TLC

VARIABLES
    \* --- caller's inputs and the outside world ---
    force,              \* copy_all(force=...)
    include_closed,     \* copy_all(include_closed_issues=...)
    srcRepo,            \* tracked files of the source repository
    destRemote,         \* tracked files of the destination repository (remote HEAD)
    srcIssues,          \* the source repository's issue listing (issues and pull requests)
    contentsStatus,     \* status the destination root listing request answers with
    contentsListing,    \* entry names that listing holds (on a 200)
    \* --- the run ---
    pc,                 \* position in copy_all
    log,                \* every request and git command made so far, in order
    exit_code,          \* -1 while running, else the process exit code
    tempExists,         \* .temp_repo_copy exists on disk
    sync,               \* copy_source_code: "none", "running", "failing", "returned", "raised"
    sourceClone,        \* files under .temp_repo_copy/source
    destWork,           \* files under .temp_repo_copy/dest
    is_empty,           \* check_dest_repo_empty's result
    unexpected_files,
    issues,             \* get_issues: records aggregated so far
    page,               \* get_issues: next page to request
    idx,                \* copy_issues: position of the for loop in issues
    success_count,
    failed_count,
    nextNumber,         \* number the destination gives its next new issue
    newNumber           \* number of the issue just created (create_issue's new_issue_data)

envVars == <<force, include_closed, srcRepo, srcIssues, contentsStatus, contentsListing>>
fsVars == <<tempExists, sourceClone, destWork, destRemote>>
checkVars == <<is_empty, unexpected_files>>
issueVars == <<issues, page, idx, success_count, failed_count, nextNumber, newNumber>>
vars == <<envVars, fsVars, checkVars, issueVars, pc, log, exit_code, sync>>

----------------------------------------------------------------------------
(* Bounds *)

\* longest destination root listing drawn for the precondition checker
MaxListing == 2
\* longest source issue listing drawn for the issue replicator
MaxIssues == 5
\* number of distinct file contents drawn for the repositories' files
MaxContent == 2
\* page size of the issue listing (100 in the source, scaled down)
per_page == 2

----------------------------------------------------------------------------
(* Names and characters: a name is a sequence of one-character strings *)

UpperChars == <<"A","B","C","D","E","F","G","H","I","J","K","L","M",
                "N","O","P","Q","R","S","T","U","V","W","X","Y","Z">>
LowerChars == <<"a","b","c","d","e","f","g","h","i","j","k","l","m",
                "n","o","p","q","r","s","t","u","v","w","x","y","z">>

lower_char(c) ==
    IF \E i \in DOMAIN UpperChars : UpperChars[i] = c
    THEN LowerChars[CHOOSE i \in DOMAIN UpperChars : UpperChars[i] = c]
    ELSE c

\* faulty variant of lower: the name is compared as written
lower_keep_case(name) == name

\* str.lower()
lower(name) == [i \in DOMAIN name |-> lower_char(name[i])]

\* str.startswith(prefix)
startswith(name, prefix) ==
    /\ Len(name) >= Len(prefix)
    /\ SubSeq(name, 1, Len(prefix)) = prefix

allowed_exact ==
    { <<".","g","i","t","h","u","b">>,
      <<".","g","i","t","i","g","n","o","r","e">>,
      <<"c","o","d","e","o","w","n","e","r","s">>,
      <<"c","o","n","t","r","i","b","u","t","i","n","g",".","m","d">>,
      <<"c","o","d","e","_","o","f","_","c","o","n","d","u","c","t",".","m","d">>,
      <<"s","e","c","u","r","i","t","y",".","m","d">> }

allowed_prefixes == << <<"r","e","a","d","m","e">>, <<"l","i","c","e","n","s","e">> >>

\* The for loop of check_dest_repo_empty from entry i on, unexpected being the
\* names appended so far.
RECURSIVE scan_contents(_, _, _)
scan_contents(contents, i, unexpected) ==
    IF i > Len(contents) THEN unexpected
    ELSE LET name == contents[i]
             name_lower == lower(name)
         IN IF name_lower \in allowed_exact
            THEN scan_contents(contents, i + 1, unexpected)
            ELSE IF \E k \in DOMAIN allowed_prefixes :
                        startswith(name_lower, allowed_prefixes[k])
                 THEN scan_contents(contents, i + 1, unexpected)
                 ELSE scan_contents(contents, i + 1, Append(unexpected, name))

\* check_dest_repo_empty's return value for a response (status, listing)
check_dest_repo_empty(status, contents) ==
    IF status = 404 THEN <<TRUE, <<>>>>
    ELSE IF status # 200 THEN <<FALSE, <<>>>>
    ELSE LET unexpected == scan_contents(contents, 1, <<>>)
         IN IF unexpected # <<>> THEN <<FALSE, unexpected>> ELSE <<TRUE, <<>>>>

\* Entry names the destination root listing is drawn from
NamePool ==
    { <<"R","E","A","D","M","E",".","m","d">>,
      <<"r","e","a","d","m","e">>,
      <<"R","e","a","d">>,
      <<"L","I","C","E","N","S","E">>,
      <<"l","i","c","e","n","c","e">>,
      <<".","g","i","t","h","u","b">>,
      <<".","G","i","t","H","u","b">>,
      <<".","g","i","t","h","u","b","2">>,
      <<".","g","i","t","i","g","n","o","r","e">>,
      <<"C","O","D","E","O","W","N","E","R","S">>,
      <<"S","e","c","u","r","i","t","y",".","m","d">>,
      <<"m","y","r","e","a","d","m","e">>,
      <<"s","r","c">>,
      <<"M","a","i","n",".","p","y">> }

RECURSIVE SeqsUpTo(_, _)
SeqsUpTo(S, n) ==
    IF n = 0 THEN { <<>> }
    ELSE LET shorter == SeqsUpTo(S, n - 1)
         IN shorter \cup { Append(s, x) : s \in shorter, x \in S }

ContentsStatuses == {200, 404, 500}

----------------------------------------------------------------------------
(* File trees: a tree maps each path to its content, or to NoFile *)

NoFile == "absent"
ContentPool == <<"v1", "v2", "v3", "v4">>
Contents == { ContentPool[i] : i \in 1..MaxContent }
SourceGit == "git:source"
DestGit == "git:dest"

GitHead == <<".git", "HEAD">>
TrackedPaths == { <<".gitignore">>, <<"a.txt">>, <<"src">>, <<"src", "main.py">> }
AllPaths == TrackedPaths \cup { GitHead }
\* every path rglob('*') can yield, parents before their children
RglobOrder == << <<".git">>, GitHead, <<".gitignore">>, <<"a.txt">>,
                 <<"src">>, <<"src", "main.py">> >>

NoTree == [p \in AllPaths |-> NoFile]

is_file(tree, p) == p \in AllPaths /\ tree[p] # NoFile
is_dir(tree, p) ==
    \E q \in AllPaths :
        /\ tree[q] # NoFile
        /\ Len(q) > Len(p)
        /\ SubSeq(q, 1, Len(p)) = p
exists(tree, p) == is_file(tree, p) \/ is_dir(tree, p)

\* a path is not a file and a directory at once
ValidTree(tree) == \A p \in AllPaths : ~(is_file(tree, p) /\ is_dir(tree, p))

\* the tracked content a repository can hold
RepoTrees ==
    { t \in [AllPaths -> Contents \cup {NoFile}] : t[GitHead] = NoFile /\ ValidTree(t) }

\* git clone: the repository's tracked files plus the clone's own .git
clone(repo, meta) == [repo EXCEPT ![GitHead] = meta]

\* the tracked files of a working copy
tracked(tree) == [tree EXCEPT ![GitHead] = NoFile]

Range(s) == { s[i] : i \in DOMAIN s }

\* '.git' in item.parts
in_git_dir(item) == ".git" \in Range(item)

\* faulty variant of write_file: an existing destination file is kept
write_file_keep(dst, p, bytes) == IF dst[p] # NoFile THEN dst ELSE [dst EXCEPT ![p] = bytes]

\* dest_item.write_bytes(item.read_bytes())
write_file(dst, p, bytes) == [dst EXCEPT ![p] = bytes]

\* every proper ancestor directory of p
Parents(p) == { SubSeq(p, 1, k) : k \in 1..(Len(p) - 1) }

\* mkdir(parents=True, exist_ok=True) succeeds unless p or an ancestor is a file
mkdir_ok(dst, p) == \A d \in Parents(p) \cup {p} : ~is_file(dst, d)

\* The for loop over source_dir.rglob('*') from item i on: <<TRUE, tree>> when
\* it completes, <<FALSE, tree>> when a step raised.
RECURSIVE copy_items(_, _, _)
copy_items(src, i, dst) ==
    IF i > Len(RglobOrder) THEN <<TRUE, dst>>
    ELSE LET item == RglobOrder[i]
         IN IF ~exists(src, item) THEN copy_items(src, i + 1, dst)
            ELSE IF in_git_dir(item) THEN copy_items(src, i + 1, dst)
            ELSE IF is_dir(src, item)
                 THEN IF mkdir_ok(dst, item)
                      THEN copy_items(src, i + 1, dst)
                      ELSE <<FALSE, dst>>
                 ELSE IF (\A d \in Parents(item) : ~is_file(dst, d)) /\ ~is_dir(dst, item)
                      THEN copy_items(src, i + 1, write_file(dst, item, src[item]))
                      ELSE <<FALSE, dst>>

----------------------------------------------------------------------------
(* The hosting service's issue listing *)

IssueNumber(i) == 10 + i
OpenIssue(i) == [number |-> IssueNumber(i), state |-> "open", pr |-> FALSE]
ClosedIssue(i) == [number |-> IssueNumber(i), state |-> "closed", pr |-> FALSE]
PullRequest(i) == [number |-> IssueNumber(i), state |-> "open", pr |-> TRUE]

\* every listing of n records, record i numbered IssueNumber(i)
RECURSIVE ListingsOfLen(_)
ListingsOfLen(n) ==
    IF n = 0 THEN { <<>> }
    ELSE { Append(l, r) : l \in ListingsOfLen(n - 1),
                          r \in { OpenIssue(n), ClosedIssue(n), PullRequest(n) } }

Listings == UNION { ListingsOfLen(n) : n \in 0..MaxIssues }

Min(a, b) == IF a <= b THEN a ELSE b

\* what the service lists for params state = 'all' or 'open'
Visible(listing, closed_too) ==
    IF closed_too THEN listing ELSE SelectSeq(listing, LAMBDA r : r.state = "open")

\* the page the service returns for params page, per_page
ServerPage(listing, closed_too, pg) ==
    LET visible == Visible(listing, closed_too)
    IN SubSeq(visible, (pg - 1) * per_page + 1, Min(pg * per_page, Len(visible)))

\* [issue for issue in page_issues if 'pull_request' not in issue]
filter_pull_requests(page_issues) == SelectSeq(page_issues, LAMBDA r : ~r.pr)

\* faulty variant of last_page: a full page ends the loop as well
last_page_at_most(page_issues) == Len(page_issues) <= per_page

\* len(page_issues) < per_page, evaluated on the filtered page
last_page(page_issues) == Len(page_issues) < per_page

----------------------------------------------------------------------------
(* Steps of the run *)

Ev(op, arg, status, ret) == [op |-> op, arg |-> arg, status |-> status, ret |-> ret]

\* faulty variant of token_valid: any answer counts as authenticated
token_valid_any(status) == TRUE

\* response.status_code == 200 in validate_token
token_valid(status) == status = 200

\* faulty variant of gate_open: a non-empty destination does not stop the run
gate_open_always(empty) == TRUE

\* `if not is_empty: sys.exit(1)` in copy_all
gate_open(empty) == empty

\* sys.exit(1)
Exit1 == pc' = "exited" /\ exit_code' = 1

\* copy_all returns and main ends: exit code 0
ExitOk == pc' = "done" /\ exit_code' = 0

\* whether the directory is still there after shutil.rmtree(ignore_errors=True),
\* which swallows a failed removal
rmtree(removal_failed) == removal_failed

ValidateToken ==
    /\ pc = "validate_token"
    /\ \E status \in {200, 401} :
        /\ log' = Append(log, Ev("validate_token", 0, status, 0))
        /\ IF token_valid(status)
           THEN /\ pc' = IF force THEN "copy_source_code" ELSE "check_dest_repo_empty"
                /\ UNCHANGED exit_code
           ELSE Exit1
    /\ UNCHANGED <<envVars, fsVars, checkVars, issueVars, sync>>

CheckDestRepoEmpty ==
    /\ pc = "check_dest_repo_empty"
    /\ log' = Append(log, Ev("list_contents", 0, contentsStatus, 0))
    /\ LET result == check_dest_repo_empty(contentsStatus, contentsListing)
       IN /\ is_empty' = result[1]
          /\ unexpected_files' = result[2]
          /\ IF gate_open(result[1])
             THEN pc' = "copy_source_code" /\ UNCHANGED exit_code
             ELSE Exit1
    /\ UNCHANGED <<envVars, fsVars, issueVars, sync>>

\* copy_source_code up to the try: remove a leftover working area, create a fresh one
PrepareTemp ==
    /\ pc = "copy_source_code"
    /\ \E removal_failed \in BOOLEAN :
        LET left == IF tempExists THEN rmtree(removal_failed) ELSE FALSE
        IN /\ tempExists' = TRUE
           /\ IF left THEN UNCHANGED <<sourceClone, destWork>>
              ELSE sourceClone' = NoTree /\ destWork' = NoTree
    /\ sync' = "running"
    /\ pc' = "git_clone_source"
    /\ UNCHANGED <<envVars, destRemote, checkVars, issueVars, log, exit_code>>

\* run_command: the command is logged with its return code; non-zero raises,
\* which takes the run to the finally block
RunCommand(op, rc, next) ==
    /\ log' = Append(log, Ev(op, 0, rc, 0))
    /\ IF rc = 0
       THEN pc' = next /\ UNCHANGED sync
       ELSE pc' = "cleanup" /\ sync' = "failing"

GitCloneSource ==
    /\ pc = "git_clone_source"
    /\ \E rc \in {0, 1} :
        /\ RunCommand("git_clone_source", rc, "git_clone_dest")
        /\ sourceClone' = IF rc = 0 THEN clone(srcRepo, SourceGit) ELSE sourceClone
    /\ UNCHANGED <<envVars, tempExists, destWork, destRemote, checkVars, issueVars, exit_code>>

GitCloneDest ==
    /\ pc = "git_clone_dest"
    /\ \E rc \in {0, 1} :
        /\ RunCommand("git_clone_dest", rc, "copy_files")
        /\ destWork' = IF rc = 0 THEN clone(destRemote, DestGit) ELSE destWork
    /\ UNCHANGED <<envVars, tempExists, sourceClone, destRemote, checkVars, issueVars, exit_code>>

\* the rglob loop; a file-system error in it raises
CopyFiles ==
    /\ pc = "copy_files"
    /\ LET result == copy_items(sourceClone, 1, destWork)
       IN /\ destWork' = result[2]
          /\ IF result[1]
             THEN pc' = "git_config_email" /\ UNCHANGED sync
             ELSE pc' = "cleanup" /\ sync' = "failing"
    /\ UNCHANGED <<envVars, tempExists, sourceClone, destRemote, checkVars, issueVars,
                   log, exit_code>>

GitConfigEmail ==
    /\ pc = "git_config_email"
    /\ \E rc \in {0, 1} : RunCommand("git_config_email", rc, "git_config_name")
    /\ UNCHANGED <<envVars, fsVars, checkVars, issueVars, exit_code>>

GitConfigName ==
    /\ pc = "git_config_name"
    /\ \E rc \in {0, 1} : RunCommand("git_config_name", rc, "git_add")
    /\ UNCHANGED <<envVars, fsVars, checkVars, issueVars, exit_code>>

GitAdd ==
    /\ pc = "git_add"
    /\ \E rc \in {0, 1} : RunCommand("git_add", rc, "git_status")
    /\ UNCHANGED <<envVars, fsVars, checkVars, issueVars, exit_code>>

\* result.stdout.strip() of `git status --porcelain`: the staged tree differs
\* from the cloned commit; a failed status prints nothing on stdout
pending_changes(rc, work, head) == rc = 0 /\ tracked(work) # head

\* subprocess.run without a return-code check
GitStatus ==
    /\ pc = "git_status"
    /\ \E rc \in {0, 1} :
        /\ log' = Append(log, Ev("git_status", 0, rc, 0))
        /\ pc' = IF pending_changes(rc, destWork, destRemote) THEN "git_commit" ELSE "cleanup"
    /\ UNCHANGED <<envVars, fsVars, checkVars, issueVars, exit_code, sync>>

GitCommit ==
    /\ pc = "git_commit"
    /\ \E rc \in {0, 1} : RunCommand("git_commit", rc, "git_push")
    /\ UNCHANGED <<envVars, fsVars, checkVars, issueVars, exit_code>>

GitPush ==
    /\ pc = "git_push"
    /\ \E rc \in {0, 1} :
        /\ RunCommand("git_push", rc, "cleanup")
        /\ destRemote' = IF rc = 0 THEN tracked(destWork) ELSE destRemote
    /\ UNCHANGED <<envVars, tempExists, sourceClone, destWork, checkVars, issueVars, exit_code>>

\* the finally block, then the return or the propagating exception
Cleanup ==
    /\ pc = "cleanup"
    /\ \E removal_failed \in BOOLEAN :
        LET left == IF tempExists THEN rmtree(removal_failed) ELSE FALSE
        IN /\ tempExists' = left
           /\ IF left THEN UNCHANGED <<sourceClone, destWork>>
              ELSE sourceClone' = NoTree /\ destWork' = NoTree
    /\ IF sync = "failing"
       THEN sync' = "raised" /\ Exit1
       ELSE sync' = "returned" /\ pc' = "get_issues" /\ UNCHANGED exit_code
    /\ UNCHANGED <<envVars, destRemote, checkVars, issueVars, log>>

----------------------------------------------------------------------------
(* copy_issues *)

\* get_issues returns: copy_issues ends at once on an empty list, else starts
\* its for loop
ReturnIssues(fetched) ==
    IF fetched = <<>>
    THEN ExitOk /\ UNCHANGED <<idx, success_count, failed_count>>
    ELSE /\ pc' = "create_issue"
         /\ idx' = 1
         /\ success_count' = 0
         /\ failed_count' = 0
         /\ UNCHANGED exit_code

\* one round of the while loop of get_issues
GetIssuesRequest ==
    /\ pc = "get_issues"
    /\ \E status \in {200, 500} :
        /\ log' = Append(log, Ev("list_issues", page, status, 0))
        /\ IF status # 200
           THEN ReturnIssues(issues) /\ UNCHANGED <<issues, page>>
           ELSE LET page_issues == ServerPage(srcIssues, include_closed, page)
                    kept == filter_pull_requests(page_issues)
                IN IF page_issues = <<>>
                   THEN ReturnIssues(issues) /\ UNCHANGED <<issues, page>>
                   ELSE /\ issues' = issues \o kept
                        /\ IF last_page(kept)
                           THEN ReturnIssues(issues \o kept) /\ UNCHANGED page
                           ELSE /\ page' = page + 1
                                /\ UNCHANGED <<pc, exit_code, idx, success_count, failed_count>>
    /\ UNCHANGED <<envVars, fsVars, checkVars, nextNumber, newNumber, sync>>

\* faulty variant of next_issue: the loop ends at the first failed creation
next_issue_stop_on_failure(created) ==
    IF idx < Len(issues) /\ created
    THEN pc' = "create_issue" /\ idx' = idx + 1 /\ UNCHANGED exit_code
    ELSE ExitOk /\ idx' = idx + 1

\* the for loop of copy_issues moves on to the next issue, or ends the run
next_issue(created) ==
    IF idx < Len(issues)
    THEN pc' = "create_issue" /\ idx' = idx + 1 /\ UNCHANGED exit_code
    ELSE ExitOk /\ idx' = idx + 1

\* faulty variant of wants_close: every created issue is closed
wants_close_always(issue) == TRUE

\* original_state == 'closed'
wants_close(issue) == issue.state = "closed"

\* close_issue(new_issue_data['number'])
close_target(issue, created_number) == created_number

\* create_issue up to its return, or up to its call of close_issue
CreateIssue ==
    /\ pc = "create_issue"
    /\ idx <= Len(issues)
    /\ \E status \in {201, 422} :
        IF status = 201
        THEN /\ log' = Append(log, Ev("create_issue", issues[idx].number, status, nextNumber))
             /\ nextNumber' = nextNumber + 1
             /\ IF wants_close(issues[idx])
                THEN /\ newNumber' = close_target(issues[idx], nextNumber)
                     /\ pc' = "close_issue"
                     /\ UNCHANGED <<idx, success_count, failed_count, exit_code>>
                ELSE /\ success_count' = success_count + 1
                     /\ next_issue(TRUE)
                     /\ UNCHANGED <<newNumber, failed_count>>
        ELSE /\ log' = Append(log, Ev("create_issue", issues[idx].number, status, 0))
             /\ failed_count' = failed_count + 1
             /\ next_issue(FALSE)
             /\ UNCHANGED <<nextNumber, newNumber, success_count>>
    /\ UNCHANGED <<envVars, fsVars, checkVars, issues, page, sync>>

\* close_issue, then create_issue returns True
CloseIssue ==
    /\ pc = "close_issue"
    /\ \E status \in {200, 404} :
        log' = Append(log, Ev("close_issue", newNumber, status, 0))
    /\ success_count' = success_count + 1
    /\ next_issue(TRUE)
    /\ UNCHANGED <<envVars, fsVars, checkVars, issues, page, failed_count,
                   nextNumber, newNumber, sync>>

----------------------------------------------------------------------------
(* Specifications *)

\* the values the run's own variables hold when copy_all starts
RunStart ==
    /\ pc = "validate_token"
    /\ log = <<>>
    /\ exit_code = -1
    /\ sync = "none"
    /\ sourceClone = NoTree
    /\ destWork = NoTree
    /\ is_empty = FALSE
    /\ unexpected_files = <<>>
    /\ issues = <<>>
    /\ page = 1
    /\ idx = 0
    /\ success_count = 0
    /\ failed_count = 0
    /\ nextNumber = 1
    /\ newNumber = 0

Name_README == <<"R","E","A","D","M","E",".","m","d">>
Name_src == <<"s","r","c">>

Tree(gitignore, a, src, main) ==
    [p \in AllPaths |->
        IF p = <<".gitignore">> THEN gitignore
        ELSE IF p = <<"a.txt">> THEN a
        ELSE IF p = <<"src">> THEN src
        ELSE IF p = <<"src", "main.py">> THEN main
        ELSE NoFile]

\* The whole run, from the start of copy_all, on a few repositories
Init ==
    /\ force \in BOOLEAN
    /\ include_closed \in BOOLEAN
    /\ srcRepo \in { Tree(NoFile, "v1", NoFile, NoFile), Tree("v1", NoFile, NoFile, "v2") }
    /\ destRemote \in { NoTree, Tree(NoFile, "v1", NoFile, NoFile),
                        Tree(NoFile, NoFile, "v1", NoFile) }
    /\ srcIssues \in { <<>>, <<OpenIssue(1)>>, <<ClosedIssue(1), PullRequest(2), OpenIssue(3)>> }
    /\ \E resp \in { <<404, <<>>>>, <<500, <<>>>>, <<200, <<Name_README>>>>,
                      <<200, <<Name_README, Name_src>>>> } :
          contentsStatus = resp[1] /\ contentsListing = resp[2]
    /\ tempExists \in BOOLEAN
    /\ RunStart

Next ==
    \/ ValidateToken
    \/ CheckDestRepoEmpty
    \/ PrepareTemp
    \/ GitCloneSource
    \/ GitCloneDest
    \/ CopyFiles
    \/ GitConfigEmail
    \/ GitConfigName
    \/ GitAdd
    \/ GitStatus
    \/ GitCommit
    \/ GitPush
    \/ Cleanup
    \/ GetIssuesRequest
    \/ CreateIssue
    \/ CloseIssue

Spec == Init /\ [][Next]_vars

\* The log of a run with force set that authenticated and whose
\* copy_source_code found nothing to commit
SyncedLog ==
    << Ev("validate_token", 0, 200, 0), Ev("git_clone_source", 0, 0, 0),
       Ev("git_clone_dest", 0, 0, 0), Ev("git_config_email", 0, 0, 0),
       Ev("git_config_name", 0, 0, 0), Ev("git_add", 0, 0, 0), Ev("git_status", 0, 0, 0) >>

\* The precondition checker on every listing: the run has authenticated and
\* is about to ask for the destination's root listing
InitEmpty ==
    /\ force = FALSE
    /\ include_closed = FALSE
    /\ srcRepo = Tree(NoFile, "v1", NoFile, NoFile)
    /\ destRemote = NoTree
    /\ srcIssues = <<>>
    /\ contentsStatus \in ContentsStatuses
    /\ contentsListing \in
          IF contentsStatus = 200 THEN SeqsUpTo(NamePool, MaxListing) ELSE { <<>> }
    /\ tempExists = FALSE
    /\ pc = "check_dest_repo_empty"
    /\ log = << Ev("validate_token", 0, 200, 0) >>
    /\ exit_code = -1
    /\ sync = "none"
    /\ sourceClone = NoTree
    /\ destWork = NoTree
    /\ is_empty = FALSE
    /\ unexpected_files = <<>>
    /\ issues = <<>>
    /\ page = 1
    /\ idx = 0
    /\ success_count = 0
    /\ failed_count = 0
    /\ nextNumber = 1
    /\ newNumber = 0

NextEmpty == CheckDestRepoEmpty

SpecEmpty == InitEmpty /\ [][NextEmpty]_vars

\* The file-copy step on every pair of repositories: both clones are made
InitCopy ==
    /\ force = TRUE
    /\ include_closed = FALSE
    /\ srcRepo \in RepoTrees
    /\ destRemote \in RepoTrees
    /\ srcIssues = <<>>
    /\ contentsStatus = 404
    /\ contentsListing = <<>>
    /\ tempExists = TRUE
    /\ pc = "copy_files"
    /\ log = SubSeq(SyncedLog, 1, 3)
    /\ exit_code = -1
    /\ sync = "running"
    /\ sourceClone = clone(srcRepo, SourceGit)
    /\ destWork = clone(destRemote, DestGit)
    /\ is_empty = FALSE
    /\ unexpected_files = <<>>
    /\ issues = <<>>
    /\ page = 1
    /\ idx = 0
    /\ success_count = 0
    /\ failed_count = 0
    /\ nextNumber = 1
    /\ newNumber = 0

NextCopy == CopyFiles

SpecCopy == InitCopy /\ [][NextCopy]_vars

\* The issue replicator on every listing: copy_source_code has returned
InitIssues ==
    /\ force = TRUE
    /\ include_closed \in BOOLEAN
    /\ srcRepo = Tree(NoFile, "v1", NoFile, NoFile)
    /\ destRemote = Tree(NoFile, "v1", NoFile, NoFile)
    /\ srcIssues \in Listings
    /\ contentsStatus = 404
    /\ contentsListing = <<>>
    /\ tempExists = FALSE
    /\ pc = "get_issues"
    /\ log = SyncedLog
    /\ exit_code = -1
    /\ sync = "returned"
    /\ sourceClone = NoTree
    /\ destWork = NoTree
    /\ is_empty = FALSE
    /\ unexpected_files = <<>>
    /\ issues = <<>>
    /\ page = 1
    /\ idx = 0
    /\ success_count = 0
    /\ failed_count = 0
    /\ nextNumber = 1
    /\ newNumber = 0

NextIssues ==
    \/ GetIssuesRequest
    \/ CreateIssue
    \/ CloseIssue

SpecIssues == InitIssues /\ [][NextIssues]_vars

\* The program is invoked a second time once its first run is over: main
\* builds a new copier and calls copy_all; the disk and the repositories are
\* as the first run left them.
RunAgain ==
    /\ pc \in {"done", "exited"}
    /\ \A i \in DOMAIN log : log[i].op # "run_again"
    /\ log' = Append(log, Ev("run_again", 0, 0, 0))
    /\ pc' = "validate_token"
    /\ exit_code' = -1
    /\ sync' = "none"
    /\ is_empty' = FALSE
    /\ unexpected_files' = <<>>
    /\ issues' = <<>>
    /\ page' = 1
    /\ idx' = 0
    /\ success_count' = 0
    /\ failed_count' = 0
    /\ newNumber' = 0
    /\ UNCHANGED <<envVars, fsVars, nextNumber>>

\* Two runs in a row on every pair of repositories, the source unchanged
\* between them
InitTwice ==
    /\ force = TRUE
    /\ include_closed = FALSE
    /\ srcRepo \in RepoTrees
    /\ destRemote \in RepoTrees
    /\ srcIssues = <<>>
    /\ contentsStatus = 404
    /\ contentsListing = <<>>
    /\ tempExists = FALSE
    /\ RunStart

NextTwice ==
    \/ ValidateToken
    \/ PrepareTemp
    \/ GitCloneSource
    \/ GitCloneDest
    \/ CopyFiles
    \/ GitConfigEmail
    \/ GitConfigName
    \/ GitAdd
    \/ GitStatus
    \/ GitCommit
    \/ GitPush
    \/ Cleanup
    \/ GetIssuesRequest
    \/ RunAgain

SpecTwice == InitTwice /\ [][NextTwice]_vars

----------------------------------------------------------------------------
(* Claims *)

LogHas(op) == \E i \in DOMAIN log : log[i].op = op

\* C1: every destination listing request, clone, commit, push, issue creation
\* and issue close of a run is preceded by an identity check answered 200; a
\* run whose identity check is answered otherwise exits with code 1 having
\* made no other request or command.
C1_AuthenticatedFirst ==
    /\ \A i \in DOMAIN log :
          log[i].op # "validate_token" =>
              \E j \in 1..(i - 1) : log[j].op = "validate_token" /\ log[j].status = 200
    /\ (\E i \in DOMAIN log : log[i].op = "validate_token" /\ log[i].status # 200) =>
          /\ pc = "exited"
          /\ exit_code = 1
          /\ Len(log) = 1
          /\ sync = "none"

\* C1's case: the identity check failed and the run has exited
C1_Witness ==
    /\ pc = "exited"
    /\ log = << Ev("validate_token", 0, 401, 0) >>

\* what the precondition checker answers for the destination as it is
DestLooksEmpty == check_dest_repo_empty(contentsStatus, contentsListing)[1]

\* C2: without force, copy_source_code and copy_issues start only after
\* check_dest_repo_empty returned True, and a False result ends the run with
\* code 1 before any clone, push or issue creation; with force the listing
\* request is never made and an authenticated run goes on to copy_source_code.
C2_EmptinessGate ==
    /\ (~force /\ (sync # "none" \/ pc \in {"copy_source_code", "get_issues", "create_issue"})) =>
          /\ LogHas("list_contents")
          /\ is_empty
          /\ DestLooksEmpty
    /\ (~force /\ LogHas("list_contents") /\ ~DestLooksEmpty) =>
          /\ pc = "exited"
          /\ exit_code = 1
          /\ Len(log) = 2
          /\ sync = "none"
    /\ force =>
          /\ ~LogHas("list_contents")
          /\ pc # "check_dest_repo_empty"
          /\ (Len(log) >= 1 /\ log[1].status = 200) =>
                (pc = "copy_source_code" \/ sync # "none")

\* C2's case: the destination holds an unexpected entry and the run exited
C2_Witness ==
    /\ ~force
    /\ LogHas("list_contents")
    /\ unexpected_files = << Name_src >>
    /\ pc = "exited"

\* C3: once copy_source_code has terminated, by return or by exception, the
\* working area .temp_repo_copy does not exist.
C3_WorkingAreaRemoved == sync \in {"returned", "raised"} => ~tempExists

Failed(e) ==
    \/ e.op = "validate_token" /\ e.status # 200
    \/ e.op = "list_contents" /\ e.status \notin {200, 404}
    \/ e.op = "list_issues" /\ e.status # 200
    \/ e.op \in { "git_clone_source", "git_clone_dest", "git_config_email",
                  "git_config_name", "git_add", "git_status", "git_commit", "git_push" }
       /\ e.status # 0

\* C7: a failed identity check, contents listing, issue listing or git command
\* is the last thing the run does: nothing is requested or run after it and the
\* run does not end with exit code 0.
C7_FailureEndsRun ==
    \A i \in DOMAIN log :
        Failed(log[i]) =>
            /\ i = Len(log)
            /\ pc \in {"cleanup", "exited"}
            /\ exit_code # 0

----------------------------------------------------------------------------
(* Claims about the issue replicator, under SpecIssues *)

IssuesReturned == pc # "get_issues"
ListingSucceeded == \A i \in DOMAIN log : log[i].op = "list_issues" => log[i].status = 200
ListingRequests == Len(SelectSeq(log, LAMBDA e : e.op = "list_issues"))
Served == Visible(srcIssues, include_closed)
NonPullRequests(listing) == SelectSeq(listing, LAMBDA r : ~r.pr)

\* C4: when get_issues has returned and every listing request succeeded, the
\* records it returns are exactly the served listing's records that are not
\* pull requests, each once and in listing order.
C4_AllIssuesFetched ==
    (IssuesReturned /\ ListingSucceeded) => issues = NonPullRequests(Served)

\* ceil(n / per_page)
CeilPages(n) == (n + per_page - 1) \div per_page

\* C9 as stated: get_issues has made exactly ceil(N/P) listing requests when
\* it returns, N being the number of records served.
C9_CeilRequests ==
    (IssuesReturned /\ ListingSucceeded) => ListingRequests = CeilPages(Len(Served))

\* the non-pull-request records of page k of the served listing
KeptOfPage(k) ==
    NonPullRequests(SubSeq(Served, (k - 1) * per_page + 1, Min(k * per_page, Len(Served))))

\* the first page that holds fewer than per_page non-pull-request records
FirstShortPage ==
    CHOOSE k \in 1..(Len(Served) + 1) :
        /\ Len(KeptOfPage(k)) < per_page
        /\ \A j \in 1..(k - 1) : Len(KeptOfPage(j)) = per_page

\* C9 as amended: when get_issues returns after successful requests it has
\* made one request per page up to and including the first page holding fewer
\* than per_page non-pull-request records (an empty page included); for a
\* listing of N records without pull requests that is floor(N/P) + 1 requests.
C9_RequestsUntilShortPage ==
    (IssuesReturned /\ ListingSucceeded) =>
        /\ ListingRequests = FirstShortPage
        /\ (\A i \in DOMAIN Served : ~Served[i].pr) =>
              ListingRequests = (Len(Served) \div per_page) + 1

\* C9's case: a listing that fills its pages exactly, fetched to the end
C9_Witness ==
    /\ IssuesReturned
    /\ ListingSucceeded
    /\ Len(Served) = per_page
    /\ \A i \in DOMAIN Served : ~Served[i].pr
    /\ ListingRequests = 2

Creations == SelectSeq(log, LAMBDA e : e.op = "create_issue")

\* C5: the creation requests sent so far are for the first fetched issues, one
\* each and in fetched order, whatever their outcomes; when the run is over
\* every fetched issue had its request, success_count + failed_count is the
\* number of fetched issues, failed_count is the number of creations not
\* answered 201, and the exit code is 0.
C5_EveryIssueAttempted ==
    /\ Len(Creations) <= Len(issues)
    /\ \A k \in DOMAIN Creations : Creations[k].arg = issues[k].number
    /\ pc = "done" =>
          /\ Len(Creations) = Len(issues)
          /\ success_count + failed_count = Len(issues)
          /\ failed_count = Len(SelectSeq(Creations, LAMBDA e : e.status # 201))
          /\ exit_code = 0

\* C5's case: the run is over, a creation failed and a later one succeeded
C5_Witness ==
    /\ pc = "done"
    /\ \E k \in DOMAIN Creations :
          /\ Creations[k].status # 201
          /\ \E m \in DOMAIN Creations : m > k /\ Creations[m].status = 201

SourceState(number) == (CHOOSE r \in Range(srcIssues) : r.number = number).state

\* a creation answered 201 of an issue that is closed in the source
ClosedCreated(e) == e.op = "create_issue" /\ e.status = 201 /\ SourceState(e.arg) = "closed"

\* C10: a successful creation of a source-closed issue is followed at once, and
\* so before the next creation, by a close request for the number the creation
\* returned; close requests occur nowhere else, and none at all when closed
\* issues are excluded.
C10_CloseFollowsCreation ==
    /\ \A i \in DOMAIN log :
          ClosedCreated(log[i]) =>
              IF i < Len(log)
              THEN log[i + 1].op = "close_issue" /\ log[i + 1].arg = log[i].ret
              ELSE pc = "close_issue"
    /\ \A j \in DOMAIN log :
          log[j].op = "close_issue" =>
              /\ j > 1
              /\ ClosedCreated(log[j - 1])
              /\ log[j].arg = log[j - 1].ret
    /\ ~include_closed => ~LogHas("close_issue")

\* C10's case: a closed issue was created under a number other than its own,
\* closed, and a further issue was created after it
C10_Witness ==
    \E j \in DOMAIN log :
        /\ log[j].op = "close_issue"
        /\ log[j].arg # log[j - 1].arg
        /\ j < Len(log)
        /\ log[j + 1].op = "create_issue"

----------------------------------------------------------------------------
(* Claim about the file-copy step, under SpecCopy *)

\* the destination working copy as cloned, before the step
DestAsCloned == clone(destRemote, DestGit)
CopyCompleted == pc = "git_config_email"

\* C6: after the file-copy step completes, every source file outside .git is
\* in the destination working copy at the same path with the same bytes;
\* every destination file whose path does not occur in the source is there
\* unchanged; and no destination file is gone.
C6_AdditiveMirror ==
    CopyCompleted =>
        /\ \A p \in AllPaths :
              (is_file(sourceClone, p) /\ p[1] # ".git") => destWork[p] = sourceClone[p]
        /\ \A p \in AllPaths :
              (is_file(DestAsCloned, p) /\ ~is_file(sourceClone, p)) =>
                  destWork[p] = DestAsCloned[p]
        /\ \A p \in AllPaths : is_file(DestAsCloned, p) => is_file(destWork, p)

\* C6's case: the step completed, overwrote one destination file with other
\* bytes, added a file and left a destination-only file in place
C6_Witness ==
    /\ CopyCompleted
    /\ \E p \in TrackedPaths :
          /\ is_file(DestAsCloned, p)
          /\ is_file(sourceClone, p)
          /\ DestAsCloned[p] # sourceClone[p]
    /\ \E p \in TrackedPaths : ~is_file(DestAsCloned, p) /\ is_file(sourceClone, p)
    /\ \E p \in TrackedPaths : is_file(DestAsCloned, p) /\ ~is_file(sourceClone, p)

----------------------------------------------------------------------------
(* Claim about the precondition checker, under SpecEmpty *)

\* character c is letter l (a lowercase character) in either case
SameIgnoringCase(c, l) ==
    c = l \/ \E i \in DOMAIN UpperChars : UpperChars[i] = c /\ LowerChars[i] = l

\* the first Len(word) characters of name spell word, case ignored
SpellsAtStart(name, word) ==
    /\ Len(name) >= Len(word)
    /\ \A i \in DOMAIN word : SameIgnoringCase(name[i], word[i])

BootstrapNames ==
    { <<".","g","i","t","h","u","b">>,
      <<".","g","i","t","i","g","n","o","r","e">>,
      <<"c","o","d","e","o","w","n","e","r","s">>,
      <<"c","o","n","t","r","i","b","u","t","i","n","g",".","m","d">>,
      <<"c","o","d","e","_","o","f","_","c","o","n","d","u","c","t",".","m","d">>,
      <<"s","e","c","u","r","i","t","y",".","m","d">> }

\* the entry matches the exact allow-list or starts with readme or license
IsBootstrap(name) ==
    \/ \E w \in BootstrapNames : Len(name) = Len(w) /\ SpellsAtStart(name, w)
    \/ SpellsAtStart(name, <<"r","e","a","d","m","e">>)
    \/ SpellsAtStart(name, <<"l","i","c","e","n","s","e">>)

Checked == pc # "check_dest_repo_empty"

\* C8: check_dest_repo_empty returns (True, []) on a 404, (False, []) on any
\* other non-200 status, and on a 200 listing (True, []) when every entry is a
\* bootstrap name, else (False, U), U being the entries that are not, in
\* listing order and as written.
C8_CheckerResult ==
    Checked =>
        LET U == SelectSeq(contentsListing, LAMBDA n : ~IsBootstrap(n))
        IN <<is_empty, unexpected_files>> =
              IF contentsStatus = 404 THEN <<TRUE, <<>>>>
              ELSE IF contentsStatus # 200 THEN <<FALSE, <<>>>>
              ELSE IF U = <<>> THEN <<TRUE, <<>>>>
              ELSE <<FALSE, U>>

\* C8's case: a 200 listing of a bootstrap name in capitals and an unexpected
\* entry, which is reported as written
C8_Witness ==
    /\ Checked
    /\ contentsStatus = 200
    /\ contentsListing = << <<"M","a","i","n",".","p","y">>, <<"R","E","A","D","M","E",".","m","d">> >>
    /\ ~is_empty
    /\ unexpected_files = << <<"M","a","i","n",".","p","y">> >>

----------------------------------------------------------------------------
(* Claim about commit, push and a second run, under SpecTwice *)

\* position in log of the start of the current run (0 in the first run)
RunStartsAt ==
    IF \E i \in DOMAIN log : log[i].op = "run_again"
    THEN CHOOSE i \in DOMAIN log : log[i].op = "run_again"
    ELSE 0

InSecondRun == RunStartsAt > 0

\* the first run pushed successfully
FirstRunPushed ==
    \E i \in DOMAIN log :
        /\ log[i].op = "git_push"
        /\ log[i].status = 0
        /\ (InSecondRun => i < RunStartsAt)

\* git status has just run: staging is done and copy_source_code is about to
\* commit or to leave
JustStaged ==
    /\ log # <<>>
    /\ log[Len(log)].op = "git_status"
    /\ pc \in {"git_commit", "cleanup"}

\* the staged working tree differs from the commit the clone checked out
TreeDiffers == tracked(destWork) # destRemote

\* a commit follows a status query at once, a push a successful commit at once
CommitThenPush ==
    \A i \in DOMAIN log :
        /\ log[i].op = "git_commit" => (i > 1 /\ log[i - 1].op = "git_status")
        /\ log[i].op = "git_push" =>
              (i > 1 /\ log[i - 1].op = "git_commit" /\ log[i - 1].status = 0)

\* the second run has made neither a commit nor a push
SecondRunQuiet ==
    \A i \in DOMAIN log :
        (InSecondRun /\ i > RunStartsAt) => log[i].op \notin {"git_commit", "git_push"}

\* the destination holds every source file as the source has it
DestHoldsSource ==
    \A p \in TrackedPaths : srcRepo[p] # NoFile => destRemote[p] = srcRepo[p]

\* C11: after staging, copy_source_code goes on to commit if and only if the
\* destination working tree differs from its last commit; a push only follows
\* a successful commit of the same run; and a second run after a first run
\* that pushed, the source unchanged, makes no commit and no push and leaves
\* the destination as the first run left it.
C11_CommitIffChanged ==
    /\ JustStaged => (pc = "git_commit" <=> TreeDiffers)
    /\ CommitThenPush
    /\ (InSecondRun /\ FirstRunPushed) => (SecondRunQuiet /\ DestHoldsSource)

\* the parts of C11 that do not rest on the outcome of git status being read
C11_PushAndSecondRun ==
    /\ (JustStaged /\ log[Len(log)].status = 0) => (pc = "git_commit" <=> TreeDiffers)
    /\ (JustStaged /\ pc = "git_commit") => TreeDiffers
    /\ CommitThenPush
    /\ (InSecondRun /\ FirstRunPushed) => (SecondRunQuiet /\ DestHoldsSource)

\* a second run after a first run that pushed has staged and found nothing
C11_SecondRunStaged ==
    /\ InSecondRun
    /\ FirstRunPushed
    /\ JustStaged
    /\ log[Len(log)].status = 0
    /\ pc = "cleanup"

====
